---- MODULE Spec2Model ----
(***************************************************************************)
(* The label-transform pipeline of dataprovider/transformer.py.            *)
(*                                                                         *)
(* A sample is a dictionary from string keys to volumes.  A Transformer    *)
(* holds a list of Transforms and folds a sample through them.  Each       *)
(* Transform reads a source key (with its optional companion key           *)
(* source+'_mask'), computes a label and a mask and writes them under      *)
(* target and target+'_mask'.                                              *)
(*                                                                         *)
(* The numeric kernels of transform.py / utils.py / datatools are not part *)
(* of the sources at hand; they are modelled from their description in the *)
(* specification (sections 4.1, 4.2, 7).                                   *)
(***************************************************************************)
EXTENDS Integers, Sequences, FiniteSets, TLC

VARIABLES
    transforms,   \* Transformer._transforms: the list of appended Transforms
    sample,       \* the sample dictionary handed to the running call
    kwargs,       \* the keyword parameters of the running call
    pc,           \* "idle" | "calling" | "returned" | "raised"
    i,            \* position of the for-loop of Transformer.__call__
    exc,          \* kind of the exception that ended the last operation
    arg,          \* the sample as it was handed to the running call
    log,          \* the Transform calls made by the running call, each with the
                  \* Transform, the keyword parameters, the sample it was given
                  \* (inp) and the sample as it left it (out)
    policy        \* what the component labeling does with isolated voxels

vars == <<transforms, sample, kwargs, pc, i, exc, arg, log, policy>>

-----------------------------------------------------------------------------
(* Python's None and optional values.                                      *)

None == <<>>
Some(x) == <<x>>
IsNone(o) == o = <<>>
The(o) == o[1]

(* Results of an operation: a value, or an exception of some kind.         *)
Ok(v) == [exc |-> "none", val |-> v]
Raise(kind) == [exc |-> kind]
Failed(r) == r.exc # "none"

-----------------------------------------------------------------------------
(* Voxel values are exact rationals <<numerator, denominator>> in lowest   *)
(* terms with a positive denominator (segment ids and 0/1 labels have      *)
(* denominator 1; rebalancing weights are fractions).                      *)

RECURSIVE GCD(_, _)
GCD(a, b) == IF b = 0 THEN a ELSE GCD(b, a % b)

Rat(n, d) ==
    LET g == GCD(IF n < 0 THEN -n ELSE n, d)
    IN  IF n = 0 THEN <<0, 1>> ELSE <<n \div g, d \div g>>

R(n) == <<n, 1>>
RMul(a, b) == Rat(a[1] * b[1], a[2] * b[2])
RLess(a, b) == a[1] * b[2] < b[1] * a[2]
RMax(a, b) == IF RLess(a, b) THEN b ELSE a
RPos(a) == a[1] > 0
RNonZero(a) == a[1] # 0

-----------------------------------------------------------------------------
(* Volumes: numpy arrays of 3 dimensions (z,y,x) or 4 (channel,z,y,x).     *)
(*   dt : dtype, nd : number of dimensions, nc : channels (1 when nd = 3), *)
(*   sh : <<z,y,x>>, d : the values, indexed by <<c,z,y,x>> from 0.        *)

Idx(nc, sh) == (0 .. nc - 1) \X (0 .. sh[1] - 1) \X (0 .. sh[2] - 1) \X (0 .. sh[3] - 1)

Vol(dt, nd, nc, sh, F(_)) ==
    [dt |-> dt, nd |-> nd, nc |-> nc, sh |-> sh, d |-> [ix \in Idx(nc, sh) |-> F(ix)]]

(* numpy's .shape *)
Shape(v) == IF v.nd = 3 THEN v.sh ELSE <<v.nc>> \o v.sh

(* numpy's .astype: the values used here are small and exact in float32,   *)
(* so the cast changes the dtype only.                                     *)
astype(v, dt) == [v EXCEPT !.dt = dt]

(* np.ones(v.shape, dt) *)
ones_like(v, dt) == Vol(dt, v.nd, v.nc, v.sh, LAMBDA ix : R(1))

(* a[c,...] : channel c of a 4-D array, a 3-D array *)
Channel(v, c) == Vol(v.dt, 3, 1, v.sh, LAMBDA ix : v.d[<<c, ix[2], ix[3], ix[4]>>])

(* the 4-D array whose channel c is the 3-D array chans[c+1] *)
Stack(chans, sh, dt) ==
    Vol(dt, 4, Len(chans), sh, LAMBDA ix : chans[ix[1] + 1].d[<<0, ix[2], ix[3], ix[4]>>])

(* a with a[c,...] = chans[c+1] for the channels c < len(chans) *)
SetChannels(a, chans) ==
    Vol(a.dt, a.nd, a.nc, a.sh,
        LAMBDA ix : IF ix[1] < Len(chans) THEN chans[ix[1] + 1].d[<<0, ix[2], ix[3], ix[4]>>]
                    ELSE a.d[ix])

(* dictionary assignment sample[k] = v *)
Put(s, k, v) == [x \in (DOMAIN s) \cup {k} |-> IF x = k THEN v ELSE s[x]]

MaskKey(key) == key \o "_mask"

EmptySample == [k \in {} |-> 0]

-----------------------------------------------------------------------------
(* utils.check_volume: the canonical 3-D form of an array.  A 3-D array is  *)
(* returned as it is, a 4-D array with a single channel loses the channel   *)
(* dimension, any other array is refused.                                   *)
check_volume(v) ==
    IF v.nd = 3 THEN Ok(v)
    ELSE IF v.nc = 1 THEN Ok(Channel(v, 0))
    ELSE Raise("ShapeError")

InBounds(sh, z, y, x) ==
    /\ 0 <= z /\ z < sh[1]
    /\ 0 <= y /\ y < sh[2]
    /\ 0 <= x /\ x < sh[3]

(* transform.affinitize(seg, ret, dst): 1 at voxel v iff v+dst is inside    *)
(* the volume and seg[v] = seg[v+dst] # 0; the result is a 3-D volume of    *)
(* seg's spatial shape.                                                     *)
Affinities(s, dst) ==
    LET Same(ix) ==
            LET z == ix[2] + dst[1]
                y == ix[3] + dst[2]
                x == ix[4] + dst[3]
            IN  /\ InBounds(s.sh, z, y, x)
                /\ s.d[ix] = s.d[<<0, z, y, x>>]
                /\ RNonZero(s.d[ix])
    IN  Vol("float32", 3, 1, s.sh, LAMBDA ix : IF Same(ix) THEN R(1) ELSE R(0))

affinitize(seg, dst) ==
    LET c == check_volume(seg)
    IN  IF Failed(c) THEN c ELSE Ok(Affinities(c.val, dst))

(* transform.affinitize_mask(msk, ret, dst): 1 at voxel v iff v+dst is      *)
(* inside the volume and both msk[v] and msk[v+dst] are nonzero.  ret is    *)
(* the slice of spatial shape sh the result is written into.                *)
MaskAffinities(m, dst) ==
    LET Both(ix) ==
            LET z == ix[2] + dst[1]
                y == ix[3] + dst[2]
                x == ix[4] + dst[3]
            IN  /\ InBounds(m.sh, z, y, x)
                /\ RNonZero(m.d[ix])
                /\ RNonZero(m.d[<<0, z, y, x>>])
    IN  Vol("float32", 3, 1, m.sh, LAMBDA ix : IF Both(ix) THEN R(1) ELSE R(0))

affinitize_mask(msk, sh, dst) ==
    LET c == check_volume(msk)
    IN  IF Failed(c) THEN c
        ELSE IF c.val.sh # sh THEN Raise("ShapeError")
        ELSE Ok(MaskAffinities(c.val, dst))

(* The three canonical offsets of a connectivity recompute.                 *)
AxisOffsets == << <<0, 0, 1>>, <<0, 1, 0>>, <<1, 0, 0>> >>

Voxels(sh) == (0 .. sh[1] - 1) \X (0 .. sh[2] - 1) \X (0 .. sh[3] - 1)

(* position of a voxel in scan (row-major) order *)
Rank(sh, v) == (v[1] * sh[2] + v[2]) * sh[3] + v[3]

RECURSIVE Closure(_, _, _)
Closure(S, E, V) ==
    LET T == S \cup {w \in V : \E u \in S : <<u, w>> \in E \/ <<w, u>> \in E}
    IN  IF T = S THEN S ELSE Closure(T, E, V)

(* the voxel of least rank of a set of voxels *)
FirstOf(sh, S) == CHOOSE u \in S : \A w \in S : Rank(sh, u) <= Rank(sh, w)

(* component ids from comp, the function from each voxel to the first     *)
(* voxel of its component, and the set of voxels that get an id           *)
Number(sh, first, labelled) ==
    LET firsts == {first[v] : v \in labelled}
    IN  [v \in DOMAIN first |->
            IF v \in labelled
            THEN 1 + Cardinality({u \in firsts : Rank(sh, u) < Rank(sh, first[v])})
            ELSE 0]

Components(sh, V, E, pol) ==
    LET comp == [v \in V |-> Closure({v}, E, V)]
    IN  Number(sh, [v \in V |-> FirstOf(sh, comp[v])],
               {v \in V : pol = "singleton" \/ \E e \in E : v = e[1] \/ v = e[2]})

(* the uint32 volume of the ids given per voxel *)
Labels(sh, ids) ==
    [dt |-> "uint32", nd |-> 3, nc |-> 1, sh |-> sh,
     d |-> [ix \in Idx(1, sh) |-> R(ids[<<ix[2], ix[3], ix[4]>>])]]

(* datatools.get_segmentation(aff): connected-component labeling of the     *)
(* voxel lattice, voxels v and v+AxisOffsets[a] being adjacent iff channel  *)
(* a of aff is 1 at v.  Components are numbered 1, 2, ... in scan order of  *)
(* their first voxel.  A voxel with no positive affinity is a component of  *)
(* its own (pol = "singleton") or background 0 (pol = "background").        *)
get_segmentation(aff, pol) ==
    LET sh == aff.sh
        V == Voxels(sh)
        E == {e \in V \X V : \E a \in 1 .. 3 :
                 /\ e[2] = <<e[1][1] + AxisOffsets[a][1],
                             e[1][2] + AxisOffsets[a][2],
                             e[1][3] + AxisOffsets[a][3]>>
                 /\ aff.d[<<a - 1, e[1][1], e[1][2], e[1][3]>>] = R(1)}
    IN  Labels(sh, Components(sh, V, E, pol))

(* transform.multiclass_expansion(vol, ids): one channel per id marking the *)
(* voxels equal to that id, and a mask that is 0 on the voxels whose value  *)
(* is 0, for every channel.  Both results have leading dimension len(ids).  *)
Expansion(s, ids) ==
    LET lbl == Vol("float32", 4, Len(ids), s.sh,
                   LAMBDA ix : IF s.d[<<0, ix[2], ix[3], ix[4]>>] = R(ids[ix[1] + 1])
                               THEN R(1) ELSE R(0))
        msk == Vol("float32", 4, Len(ids), s.sh,
                   LAMBDA ix : IF RNonZero(s.d[<<0, ix[2], ix[3], ix[4]>>])
                               THEN R(1) ELSE R(0))
    IN  <<lbl, msk>>

multiclass_expansion(vol, ids) ==
    LET c == check_volume(vol)
    IN  IF Failed(c) THEN c ELSE Ok(Expansion(c.val, ids))

(* transform.binarize(vol): 1 where vol is nonzero, else 0. *)
binarize(vol) ==
    Vol("float32", vol.nd, vol.nc, vol.sh,
        LAMBDA ix : IF RNonZero(vol.d[ix]) THEN R(1) ELSE R(0))

(* transform.binarize_object(vol, object_id): 1 where vol equals the one    *)
(* target id, else 0; with no object_id the id at the center voxel is used. *)
binarize_object(vol, object_id) ==
    LET center == <<0, vol.sh[1] \div 2, vol.sh[2] \div 2, vol.sh[3] \div 2>>
        id == IF IsNone(object_id) THEN vol.d[center] ELSE R(The(object_id))
    IN  Vol("float32", vol.nd, vol.nc, vol.sh,
            LAMBDA ix : IF vol.d[ix] = id THEN R(1) ELSE R(0))

(* transform.rebalance_binary_class(lbl, msk, base_w): inverse-frequency    *)
(* weights.  n1 and n0 count the valid voxels of each class; a region with  *)
(* a single class keeps msk; otherwise msk is scaled by w1 = n/(2*n1) on    *)
(* the positive class and by w0 = n/(2*n0) on the negative class, w0 being  *)
(* raised to base_w*w1 when base_w is given.  lbl and msk of different      *)
(* shapes are a shape mismatch.                                             *)
Weighted(lbl, msk, w1, w0) ==
    Vol("float32", msk.nd, msk.nc, msk.sh,
        LAMBDA ix : IF lbl.d[ix] = R(1) THEN RMul(msk.d[ix], w1)
                    ELSE IF lbl.d[ix] = R(0) THEN RMul(msk.d[ix], w0)
                    ELSE msk.d[ix])

Rebalanced(lbl, msk, base_w, n1, n0) ==
    LET n == n0 + n1
        w1 == Rat(n, 2 * n1)
        w0 == IF IsNone(base_w) THEN Rat(n, 2 * n0)
              ELSE RMax(Rat(n, 2 * n0), RMul(The(base_w), w1))
    IN  IF n1 = 0 \/ n0 = 0 THEN msk ELSE Weighted(lbl, msk, w1, w0)

rebalance_binary_class(lbl, msk, base_w) ==
    IF Shape(lbl) # Shape(msk) THEN Raise("ShapeError")
    ELSE Ok(Rebalanced(lbl, msk, base_w,
                Cardinality({ix \in Idx(lbl.nc, lbl.sh) : lbl.d[ix] = R(1) /\ RPos(msk.d[ix])}),
                Cardinality({ix \in Idx(lbl.nc, lbl.sh) : lbl.d[ix] = R(0) /\ RPos(msk.d[ix])})))

(* transform.crop(vol, offset, size): the axis-aligned sub-box over the     *)
(* last three dimensions; a leading channel dimension is kept.              *)
crop(vol, offset, size) ==
    IF \E a \in 1 .. 3 : offset[a] + size[a] > vol.sh[a] THEN Raise("ShapeError")
    ELSE Ok(Vol(vol.dt, vol.nd, vol.nc, size,
                LAMBDA ix : vol.d[<<ix[1], ix[2] + offset[1], ix[3] + offset[2],
                                    ix[4] + offset[3]>>]))

-----------------------------------------------------------------------------
(* The Transform classes.  A Transform object is the record of the fields  *)
(* its __init__ stores; its __call__ is an operator from the sample and    *)
(* the keyword parameters to an outcome: the exception raised ("none" on   *)
(* return) and the sample dictionary as the call leaves it (the dictionary *)
(* is updated in place, so what was written before an exception stays).    *)

Outcome(e, s) == [exc |-> e, sample |-> s]

(* Transform.extract *)
extract(smp, key) ==
    IF key \notin DOMAIN smp THEN Raise("AssertionError")
    ELSE LET msk == IF MaskKey(key) \in DOMAIN smp
                    THEN astype(smp[MaskKey(key)], "float32")
                    ELSE ones_like(smp[key], "float32")
         IN  Ok(<<smp[key], msk>>)

(* a call that writes the label and forgets the mask *)
UpdateLabelOnly(smp, target, lbl, msk) == Put(smp, target, lbl)

(* a call that builds a new dictionary holding the label and the mask only *)
UpdateRebuilt(smp, target, lbl, msk) ==
    Put(Put(EmptySample, target, lbl), MaskKey(target), msk)

(* The writes that end every __call__:                                     *)
(*   sample[self.target] = lbl; sample[self.target+'_mask'] = msk          *)
Update(smp, target, lbl, msk) == Put(Put(smp, target, lbl), MaskKey(target), msk)

Boundary(source, target, rebalance) ==
    [type |-> "Boundary", source |-> source, target |-> target, rebalance |-> rebalance]

BoundaryCall(self, smp, kw) ==
    LET e == extract(smp, self.source)
        bdr == e.val[1]
        msk == e.val[2]
        x == multiclass_expansion(bdr, <<0>>)
        lbl == x.val[1]
        r == IF self.rebalance THEN rebalance_binary_class(lbl, msk, None) ELSE Ok(msk)
    IN  IF Failed(e) THEN Outcome(e.exc, smp)
        ELSE IF Failed(x) THEN Outcome(x.exc, smp)
        ELSE IF Failed(r) THEN Outcome(r.exc, smp)
        ELSE Outcome("none", Update(smp, self.target, lbl, r.val))

(* a recompute that stores the x and the y affinities in each other's channel *)
recomputeSwapped(seg, pol) ==
    LET a1 == affinitize(seg, AxisOffsets[1])
        a2 == affinitize(seg, AxisOffsets[2])
        a3 == affinitize(seg, AxisOffsets[3])
    IN  IF Failed(a1) THEN a1
        ELSE Ok(get_segmentation(Stack(<<a2.val, a1.val, a3.val>>, a1.val.sh, "float32"), pol))

(* "Recompute connected components": the block shared by Segmentation and  *)
(* Affinity.                                                               *)
recompute(seg, pol) ==
    LET a1 == affinitize(seg, AxisOffsets[1])
        a2 == affinitize(seg, AxisOffsets[2])
        a3 == affinitize(seg, AxisOffsets[3])
    IN  IF Failed(a1) THEN a1
        ELSE Ok(get_segmentation(Stack(<<a1.val, a2.val, a3.val>>, a1.val.sh, "float32"), pol))

Segmentation(source, target, recomp) ==
    [type |-> "Segmentation", source |-> source, target |-> target, recompute |-> recomp]

SegmentationCall(self, smp, kw, pol) ==
    LET e == extract(smp, self.source)
        msk == e.val[2]
        s == IF self.recompute THEN recompute(e.val[1], pol) ELSE Ok(e.val[1])
        t == check_volume(astype(s.val, "float32"))
        smp1 == Put(smp, self.target, t.val)
        m == check_volume(astype(msk, "float32"))
    IN  IF Failed(e) THEN Outcome(e.exc, smp)
        ELSE IF Failed(s) THEN Outcome(s.exc, smp)
        ELSE IF Failed(t) THEN Outcome(t.exc, smp)
        ELSE IF Failed(m) THEN Outcome(m.exc, smp1)
        ELSE Outcome("none", Put(smp1, MaskKey(self.target), m.val))

Affinity(dst, source, target, crp, crop_size, base_w, recomp) ==
    [type |-> "Affinity", dst |-> dst, source |-> source, target |-> target,
     crop |-> crp, crop_size |-> crop_size, base_w |-> base_w, recompute |-> recomp]

(* a crop of the new target and its mask only *)
CropTargetOnly(self, smp) ==
    LET c(k) == crop(smp[k], The(self.crop), The(self.crop_size))
        mine == {self.target, MaskKey(self.target)}
    IN  IF \E k \in mine : Failed(c(k)) THEN {Outcome("ShapeError", smp)}
        ELSE {Outcome("none", [k \in DOMAIN smp |-> IF k \in mine THEN c(k).val ELSE smp[k]])}

(* The loop "for k, v in sample.items(): sample[k] = tf.crop(v, ...)".  The *)
(* dictionary is visited in no fixed order, so when some entry cannot be    *)
(* cropped any set of the others may have been cropped before the error.    *)
CropAll(self, smp) ==
    LET c(k) == crop(smp[k], The(self.crop), The(self.crop_size))
        good == {k \in DOMAIN smp : ~Failed(c(k))}
        Cropped(K) == [k \in DOMAIN smp |-> IF k \in K THEN c(k).val ELSE smp[k]]
    IN  IF good = DOMAIN smp THEN {Outcome("none", Cropped(good))}
        ELSE {Outcome("ShapeError", Cropped(K)) : K \in SUBSET good}

AffinityCall(self, smp, kw, pol) ==
    LET e == extract(smp, self.source)
        s == IF self.recompute THEN recompute(e.val[1], pol) ELSE Ok(e.val[1])
        seg == s.val
        n == Len(self.dst)
        a == [j \in 1 .. n |-> affinitize(seg, self.dst[j])]
        m == [j \in 1 .. n |-> affinitize_mask(e.val[2], seg.sh, self.dst[j])]
        lbl == Stack([j \in 1 .. n |-> a[j].val], seg.sh, "float32")
        w == [j \in 1 .. n |->
                 IF IsNone(self.base_w) THEN m[j]
                 ELSE rebalance_binary_class(a[j].val, m[j].val, self.base_w)]
        msk == Stack([j \in 1 .. n |-> w[j].val], seg.sh, "float32")
        smp1 == Update(smp, self.target, lbl, msk)
    IN  IF Failed(e) THEN {Outcome(e.exc, smp)}
        ELSE IF Failed(s) THEN {Outcome(s.exc, smp)}
        ELSE IF \E j \in 1 .. n : Failed(a[j]) \/ Failed(m[j])
        THEN {Outcome("ShapeError", smp)}
        ELSE IF IsNone(self.crop) THEN {Outcome("none", smp1)}
        ELSE CropAll(self, smp1)

Semantic(ids, source, target, rebalance) ==
    [type |-> "Semantic", ids |-> ids, source |-> source, target |-> target,
     rebalance |-> rebalance]

(* numpy's in-place "msk *= msk2": msk2 is broadcast to msk's shape, which  *)
(* fails unless msk has as many dimensions and every dimension of msk2 is 1 *)
(* or msk's.                                                                *)
imul(msk, msk2) ==
    LET a == Shape(msk)
        b == Shape(msk2)
        At(ix) == msk2.d[<<IF msk2.nc = 1 THEN 0 ELSE ix[1],
                           IF msk2.sh[1] = 1 THEN 0 ELSE ix[2],
                           IF msk2.sh[2] = 1 THEN 0 ELSE ix[3],
                           IF msk2.sh[3] = 1 THEN 0 ELSE ix[4]>>]
    IN  IF Len(a) < Len(b) \/ \E j \in 1 .. Len(b) : b[j] # 1 /\ b[j] # a[j + Len(a) - Len(b)]
        THEN Raise("ValueError")
        ELSE Ok(Vol(msk.dt, msk.nd, msk.nc, msk.sh, LAMBDA ix : RMul(msk.d[ix], At(ix))))

SemanticCall(self, smp, kw) ==
    LET e == extract(smp, self.source)
        x == multiclass_expansion(e.val[1], self.ids)
        lbl == x.val[1]
        p == imul(e.val[2], x.val[2])
        msk == p.val
        n == Len(self.ids)
        w == [j \in 1 .. n |->
                 rebalance_binary_class(Channel(lbl, j - 1), Channel(msk, j - 1), None)]
        out == IF self.rebalance THEN SetChannels(msk, [j \in 1 .. n |-> w[j].val]) ELSE msk
    IN  IF Failed(e) THEN Outcome(e.exc, smp)
        ELSE IF Failed(x) THEN Outcome(x.exc, smp)
        ELSE IF Failed(p) THEN Outcome(p.exc, smp)
        ELSE IF self.rebalance /\ n > msk.nc THEN Outcome("IndexError", smp)
        ELSE IF self.rebalance /\ \E j \in 1 .. n : Failed(w[j]) THEN Outcome("ShapeError", smp)
        ELSE Outcome("none", Update(smp, self.target, lbl, out))

Synapse(source, target, rebalance, base_w) ==
    [type |-> "Synapse", source |-> source, target |-> target, rebalance |-> rebalance,
     base_w |-> base_w]

SynapseCall(self, smp, kw) ==
    LET e == extract(smp, self.source)
        lbl == binarize(e.val[1])
        r == IF self.rebalance
             THEN rebalance_binary_class(lbl, e.val[2], Some(self.base_w))
             ELSE Ok(e.val[2])
    IN  IF Failed(e) THEN Outcome(e.exc, smp)
        ELSE IF Failed(r) THEN Outcome(r.exc, smp)
        ELSE Outcome("none", Update(smp, self.target, lbl, r.val))

ObjectInstance(source, target, rebalance) ==
    [type |-> "ObjectInstance", source |-> source, target |-> target,
     rebalance |-> rebalance]

ObjectInstanceCall(self, smp, kw) ==
    LET e == extract(smp, self.source)
        object_id == IF "object_id" \in DOMAIN kw THEN Some(kw["object_id"]) ELSE None
        lbl == binarize_object(e.val[1], object_id)
        r == IF self.rebalance THEN rebalance_binary_class(lbl, e.val[2], None)
             ELSE Ok(e.val[2])
    IN  IF Failed(e) THEN Outcome(e.exc, smp)
        ELSE IF Failed(r) THEN Outcome(r.exc, smp)
        ELSE Outcome("none", Update(smp, self.target, lbl, r.val))

CenterInstance(source, target, mask, rebalance) ==
    [type |-> "CenterInstance", source |-> source, target |-> target, mask |-> mask,
     rebalance |-> rebalance]

(* a center mask that is set in the first channel only *)
CenterMaskFirstChannel(seg) ==
    Vol("float32", seg.nd, seg.nc, seg.sh,
        LAMBDA ix : IF ix = <<0, seg.sh[1] \div 2, seg.sh[2] \div 2, seg.sh[3] \div 2>>
                      THEN R(1) ELSE R(0))

(* mask = np.zeros(seg.shape); mask[...,z//2,y//2,x//2] = 1 *)
CenterMask(seg) ==
    Vol("float32", seg.nd, seg.nc, seg.sh,
        LAMBDA ix : IF <<ix[2], ix[3], ix[4]>> =
                         <<seg.sh[1] \div 2, seg.sh[2] \div 2, seg.sh[3] \div 2>>
                      THEN R(1) ELSE R(0))

CenterInstanceCall(self, smp, kw) ==
    IF IsNone(self.mask) THEN ObjectInstanceCall(self, smp, kw)
    ELSE IF self.source \notin DOMAIN smp THEN Outcome("KeyError", smp)
    ELSE ObjectInstanceCall(self, Put(smp, The(self.mask), CenterMask(smp[self.source])), kw)

-----------------------------------------------------------------------------
(* Bounds of the model and the inputs the calls are drawn from.            *)

MaxTransforms == 2    \* longest pipeline built
MaxId == 2            \* largest segment id of the exhaustively drawn volumes

Lattice == <<1, 2, 2>>      \* spatial shape of the curated source volumes
CropOffset == <<0, 0, 1>>
CropSize == <<1, 2, 1>>

NoKwargs == [k \in {} |-> 0]

(* a single-channel volume from its values in scan order *)
FromSeq(dt, nd, sh, q) ==
    Vol(dt, nd, 1, sh, LAMBDA ix : R(q[Rank(sh, <<ix[2], ix[3], ix[4]>>) + 1]))

(* The calls made: a sample and the keyword parameters.  The samples hold  *)
(* a segmentation "seg" as a 3-D or a single-channel 4-D array, some with  *)
(* a companion mask of the same shape, some with an image "img" beside it  *)
(* (of the same or of a smaller extent).                                   *)
Input(smp, kw) == [sample |-> smp, kwargs |-> kw]

Inputs ==
    { Input([seg |-> FromSeq("uint32", 3, Lattice, <<1, 1, 2, 2>>)], NoKwargs),
      Input([seg |-> FromSeq("uint32", 3, Lattice, <<1, 0, 0, 1>>)], [object_id |-> 2]),
      Input([seg |-> FromSeq("uint32", 3, Lattice, <<0, 2, 2, 2>>)], [object_id |-> 2]),
      Input([seg |-> FromSeq("uint32", 4, Lattice, <<1, 1, 2, 2>>)], [object_id |-> 2]),
      Input([seg |-> FromSeq("uint32", 4, Lattice, <<1, 0, 2, 1>>)], NoKwargs),
      Input([seg |-> FromSeq("uint32", 3, Lattice, <<1, 2, 2, 0>>),
             seg_mask |-> FromSeq("uint8", 3, Lattice, <<1, 1, 0, 1>>)], NoKwargs),
      Input([seg |-> FromSeq("uint32", 4, Lattice, <<1, 1, 2, 0>>),
             seg_mask |-> FromSeq("uint8", 4, Lattice, <<1, 0, 1, 1>>)], [object_id |-> 2]),
      Input([seg |-> FromSeq("uint32", 3, Lattice, <<1, 1, 2, 2>>),
             img |-> FromSeq("float32", 3, Lattice, <<3, 4, 5, 6>>)], NoKwargs),
      Input([seg |-> FromSeq("uint32", 3, Lattice, <<1, 1, 2, 2>>),
             img |-> FromSeq("float32", 3, <<1, 1, 2>>, <<3, 4>>)], NoKwargs) }

Transforms ==
    { Boundary("seg", "lbl", TRUE),
      Boundary("seg", "lbl", FALSE),
      Segmentation("seg", "lbl", TRUE),
      Segmentation("lbl", "out", FALSE),
      Affinity(<< <<0, 0, 1>>, <<0, 1, 0>> >>, "seg", "aff", None, None, None, TRUE),
      Affinity(<< <<0, 0, 1>> >>, "seg", "aff", Some(CropOffset), Some(CropSize),
               Some(<<1, 2>>), FALSE),
      Semantic(<<1, 2>>, "seg", "lbl", FALSE),
      Semantic(<<1>>, "seg", "lbl", TRUE),
      Synapse("seg", "lbl", TRUE, R(0)),
      ObjectInstance("seg", "seg", FALSE),
      CenterInstance("seg", "lbl", None, TRUE),
      CenterInstance("lbl", "out", Some("ctr"), TRUE),
      CenterInstance("aff", "out", Some("ctr"), FALSE) }

(* something that is no Transform, for Transformer.append's assertion *)
NotATransform == [type |-> "object"]

-----------------------------------------------------------------------------
(* The Transformer.                                                        *)

Init ==
    /\ transforms = <<>>
    /\ sample = EmptySample
    /\ kwargs = NoKwargs
    /\ pc = "idle"
    /\ i = 0
    /\ exc = "none"
    /\ arg = EmptySample
    /\ log = <<>>
    /\ policy \in {"singleton", "background"}

(* Transformer.append *)
append(tf) ==
    /\ pc = "idle"
    /\ Len(transforms) < MaxTransforms
    /\ IF tf.type = "object"
       THEN exc' = "AssertionError" /\ UNCHANGED transforms
       ELSE exc' = "none" /\ transforms' = Append(transforms, tf)
    /\ UNCHANGED <<sample, kwargs, pc, i, arg, log, policy>>

(* entry of Transformer.__call__(sample, **kwargs) *)
Call(smp, kw) ==
    /\ pc = "idle"
    /\ pc' = "calling"
    /\ i' = 1
    /\ sample' = smp
    /\ kwargs' = kw
    /\ exc' = "none"
    /\ arg' = smp
    /\ log' = <<>>
    /\ UNCHANGED <<transforms, policy>>

(* a loop that walks the list from its end *)
CurrentReversed(ts, k) == ts[Len(ts) + 1 - k]

(* the Transform the for-loop of Transformer.__call__ is at *)
Current(ts, k) == ts[k]

(* the loop is at a Transform of the given class *)
AtClass(type) ==
    /\ pc = "calling"
    /\ i <= Len(transforms)
    /\ Current(transforms, i).type = type

(* sample = tf(sample, **kwargs), the call having one of the outcomes outs: *)
(* a Transform that raises ends the pipeline call, the exception            *)
(* propagating to the caller.                                               *)
Assign(outs) ==
    /\ \E out \in outs :
          /\ sample' = out.sample
          /\ exc' = out.exc
          /\ pc' = IF out.exc = "none" THEN "calling" ELSE "raised"
          /\ log' = Append(log, [tf |-> Current(transforms, i), kwargs |-> kwargs,
                                 inp |-> sample, out |-> out.sample])
    /\ i' = i + 1
    /\ UNCHANGED <<transforms, kwargs, arg, policy>>

StepBoundary ==
    /\ AtClass("Boundary")
    /\ Assign({BoundaryCall(Current(transforms, i), sample, kwargs)})

StepSegmentation ==
    /\ AtClass("Segmentation")
    /\ Assign({SegmentationCall(Current(transforms, i), sample, kwargs, policy)})

StepAffinity ==
    /\ AtClass("Affinity")
    /\ Assign(AffinityCall(Current(transforms, i), sample, kwargs, policy))

StepSemantic ==
    /\ AtClass("Semantic")
    /\ Assign({SemanticCall(Current(transforms, i), sample, kwargs)})

StepSynapse ==
    /\ AtClass("Synapse")
    /\ Assign({SynapseCall(Current(transforms, i), sample, kwargs)})

StepObjectInstance ==
    /\ AtClass("ObjectInstance")
    /\ Assign({ObjectInstanceCall(Current(transforms, i), sample, kwargs)})

StepCenterInstance ==
    /\ AtClass("CenterInstance")
    /\ Assign({CenterInstanceCall(Current(transforms, i), sample, kwargs)})

(* return sample *)
Return ==
    /\ pc = "calling"
    /\ i > Len(transforms)
    /\ pc' = "returned"
    /\ UNCHANGED <<transforms, sample, kwargs, i, exc, arg, log, policy>>

AppendAny == \E tf \in Transforms \cup {NotATransform} : append(tf)

CallAny == \E inp \in Inputs : Call(inp.sample, inp.kwargs)

Next ==
    \/ AppendAny
    \/ CallAny
    \/ StepBoundary
    \/ StepSegmentation
    \/ StepAffinity
    \/ StepSemantic
    \/ StepSynapse
    \/ StepObjectInstance
    \/ StepCenterInstance
    \/ Return

Spec == Init /\ [][Next]_vars

-----------------------------------------------------------------------------
(* Segmentation with recompute applied twice, on every segmentation of     *)
(* small lattices with ids 0 .. MaxId.                                     *)

RecomputeLattices == {<<1, 2, 2>>, <<2, 1, 2>>, <<2, 2, 1>>, <<1, 1, 3>>, <<1, 2, 3>>}

AllVols(dt, nd, sh, vals) ==
    {[dt |-> dt, nd |-> nd, nc |-> 1, sh |-> sh, d |-> [ix \in Idx(1, sh) |-> R(f[ix])]] :
        f \in [Idx(1, sh) -> vals]}

RecomputeSamples ==
    {[seg |-> v] : v \in UNION {AllVols("uint32", 3, sh, 0 .. MaxId) : sh \in RecomputeLattices}}
    \cup {[seg |-> v] : v \in AllVols("uint32", 4, <<2, 1, 2>>, 0 .. MaxId)}
    \cup {[seg |-> v, seg_mask |-> m] :
             v \in AllVols("uint32", 3, <<1, 1, 3>>, 0 .. MaxId),
             m \in AllVols("uint8", 3, <<1, 1, 3>>, 0 .. 1)}

InitRecompute ==
    /\ transforms = <<Segmentation("seg", "lbl", TRUE), Segmentation("lbl", "out", TRUE)>>
    /\ sample = EmptySample
    /\ kwargs = NoKwargs
    /\ pc = "idle"
    /\ i = 0
    /\ exc = "none"
    /\ arg = EmptySample
    /\ log = <<>>
    /\ policy \in {"singleton", "background"}

CallRecompute == \E smp \in RecomputeSamples : Call(smp, NoKwargs)

NextRecompute ==
    \/ CallRecompute
    \/ StepSegmentation
    \/ Return

SpecRecompute == InitRecompute /\ [][NextRecompute]_vars

-----------------------------------------------------------------------------
(* What the properties below speak of.                                     *)

Called == Len(log) > 0
Last == log[Len(log)]

CropConfigured(tf) == tf.type = "Affinity" /\ ~IsNone(tf.crop)
MaskConfigured(tf) == tf.type = "CenterInstance" /\ ~IsNone(tf.mask)

Targets(tf) == {tf.target, MaskKey(tf.target)}

(* the keys a Transform is configured to write *)
Writes(tf) == Targets(tf) \cup (IF MaskConfigured(tf) THEN {The(tf.mask)} ELSE {})

Center(sh) == <<sh[1] \div 2, sh[2] \div 2, sh[3] \div 2>>

-----------------------------------------------------------------------------
(* C1: a pipeline call that returns has applied every appended Transform   *)
(* exactly once, in the order of appending, each with the keyword          *)
(* parameters of the call and with the sample the previous one returned    *)
(* (the first with the sample of the call); it returns what the last       *)
(* Transform returned, and the sample of the call when the pipeline is     *)
(* empty.                                                                  *)
C1_AppliedInOrder ==
    pc = "returned" =>
        LET n == Len(transforms)
        IN  /\ Len(log) = n
            /\ \A j \in 1 .. n :
                  /\ log[j].tf = transforms[j]
                  /\ log[j].kwargs = kwargs
                  /\ log[j].inp = (IF j = 1 THEN arg ELSE log[j - 1].out)
            /\ sample = (IF n = 0 THEN arg ELSE log[n].out)

C1_Witness ==
    /\ pc = "returned"
    /\ Len(transforms) = 2
    /\ transforms[1] # transforms[2]
    /\ "object_id" \in DOMAIN kwargs
    /\ log[1].out # arg
    /\ sample # log[1].out

(* C2: when a pipeline call returns, the target key of every Transform of  *)
(* the pipeline and its companion key target+'_mask' are in the sample.    *)
C2_TargetsPresent ==
    pc = "returned" =>
        \A j \in 1 .. Len(transforms) : Targets(transforms[j]) \subseteq DOMAIN sample

C2_Witness ==
    /\ pc = "returned"
    /\ Len(transforms) = 2
    /\ transforms[1].target # transforms[2].target
    /\ CropConfigured(transforms[2])

(* C3: after a Transform call that succeeds, the label under the target    *)
(* key and the mask under target+'_mask' have the same shape.              *)
C3_LabelMaskSameShape ==
    (Called /\ exc = "none") =>
        Shape(sample[Last.tf.target]) = Shape(sample[MaskKey(Last.tf.target)])

(* C4: a Transform call other than Affinity with crop is all-or-nothing:   *)
(* when it fails the sample is as it was before the call, when it succeeds *)
(* the target and its mask are written.                                    *)
C4_AllOrNothing ==
    (Called /\ ~CropConfigured(Last.tf)) =>
        IF exc = "none" THEN Targets(Last.tf) \subseteq DOMAIN sample
        ELSE sample = Last.inp

(* C5: a Transform call other than Affinity with crop leaves every entry   *)
(* of the sample that is not under a key it is configured to write as it   *)
(* was, and adds no other key.                                             *)
C5_OnlyConfiguredKeysChange ==
    (Called /\ ~CropConfigured(Last.tf)) =>
        /\ DOMAIN Last.inp \subseteq DOMAIN sample
        /\ DOMAIN sample \subseteq DOMAIN Last.inp \cup Writes(Last.tf)
        /\ \A k \in DOMAIN Last.inp \ Writes(Last.tf) : sample[k] = Last.inp[k]

C5_Witness ==
    /\ Called
    /\ exc = "none"
    /\ Last.tf.type = "Semantic"
    /\ Last.tf.source # Last.tf.target
    /\ MaskKey(Last.tf.source) \in DOMAIN Last.inp
    /\ sample[Last.tf.target] # Last.inp[Last.tf.source]

(* C6: after a successful Affinity call with crop configured the sample    *)
(* has the keys it would have without the crop, and every entry is the     *)
(* sub-box at the crop offset, of the crop size, of the entry it would be  *)
(* without the crop, with the same leading channel dimension.              *)
C6_CropEveryEntry ==
    (Called /\ exc = "none" /\ CropConfigured(Last.tf)) =>
        LET c == The(Last.tf.crop)
            s == The(Last.tf.crop_size)
            plain == [Last.tf EXCEPT !.crop = None, !.crop_size = None]
            U == (CHOOSE o \in AffinityCall(plain, Last.inp, Last.kwargs, policy) : TRUE).sample
        IN  /\ DOMAIN sample = DOMAIN U
            /\ \A k \in DOMAIN U :
                  /\ sample[k].sh = s
                  /\ sample[k].nd = U[k].nd
                  /\ sample[k].nc = U[k].nc
                  /\ sample[k].dt = U[k].dt
                  /\ \A ix \in Idx(U[k].nc, s) :
                        sample[k].d[ix] =
                            U[k].d[<<ix[1], ix[2] + c[1], ix[3] + c[2], ix[4] + c[3]>>]

C6_Witness ==
    /\ Called
    /\ exc = "none"
    /\ CropConfigured(Last.tf)
    /\ "img" \in DOMAIN sample
    /\ Last.inp["img"].sh # The(Last.tf.crop_size)
    /\ sample["img"].sh = The(Last.tf.crop_size)
    /\ sample[Last.tf.target].nd = 4

(* C7: a Transform call on a sample without the source key fails with a    *)
(* KeyError, whatever the variant, and writes nothing.                     *)
C7_MissingSourceIsKeyError ==
    (Called /\ Last.tf.source \notin DOMAIN Last.inp) =>
        exc = "KeyError" /\ sample = Last.inp

(* C8: whenever the pipeline is about to call a Transform whose source key *)
(* K is in the sample, extract(sample, K) returns the volume under K and a *)
(* mask of that volume's shape: the entry under K+'_mask' as float32 when  *)
(* there is one, all ones otherwise.                                       *)
C8_ExtractMaskOfSameShape ==
    (pc = "calling" /\ i <= Len(transforms)
                    /\ Current(transforms, i).source \in DOMAIN sample) =>
        LET K == Current(transforms, i).source
            r == extract(sample, K)
        IN  /\ ~Failed(r)
            /\ r.val[1] = sample[K]
            /\ r.val[2] = (IF MaskKey(K) \in DOMAIN sample
                           THEN astype(sample[MaskKey(K)], "float32")
                           ELSE ones_like(sample[K], "float32"))
            /\ Shape(r.val[2]) = Shape(sample[K])

(* C9: Segmentation with recompute applied to the output of Segmentation   *)
(* with recompute gives the segmentation and the mask of the first         *)
(* application.                                                            *)
C9_RecomputeIdempotent ==
    pc = "returned" =>
        /\ exc = "none"
        /\ sample["out"] = sample["lbl"]
        /\ sample["out_mask"] = sample["lbl_mask"]

C9_Witness ==
    /\ pc = "returned"
    /\ \E u, w \in DOMAIN sample["seg"].d :
          /\ sample["seg"].d[u] = sample["seg"].d[w]
          /\ RNonZero(sample["seg"].d[u])
          /\ sample["out"].d[<<0, u[2], u[3], u[4]>>] # sample["out"].d[<<0, w[2], w[3], w[4]>>]
    /\ \E u, w \in DOMAIN sample["out"].d :
          u # w /\ sample["out"].d[u] = sample["out"].d[w] /\ RNonZero(sample["out"].d[u])

(* C10 as stated: the mask CenterInstance writes under its mask key has    *)
(* the shape of the source and exactly one voxel of value 1, the others    *)
(* being 0.                                                                *)
C10_SingleActiveVoxel ==
    (Called /\ MaskConfigured(Last.tf) /\ Last.tf.source \in DOMAIN Last.inp
            /\ The(Last.tf.mask) \notin Targets(Last.tf)) =>
        LET m == sample[The(Last.tf.mask)]
        IN  /\ Shape(m) = Shape(Last.inp[Last.tf.source])
            /\ Cardinality({ix \in DOMAIN m.d : m.d[ix] = R(1)}) = 1
            /\ \A ix \in DOMAIN m.d : m.d[ix] \in {R(0), R(1)}

(* C10 amended: the mask CenterInstance writes under its mask key has the  *)
(* shape of the source and value 1 at the spatial center of every channel, *)
(* 0 elsewhere; it is written also when the ObjectInstance logic fails;    *)
(* without a mask key the call does what ObjectInstance does.              *)
C10_ActiveVoxelPerChannel ==
    /\ (Called /\ MaskConfigured(Last.tf) /\ Last.tf.source \in DOMAIN Last.inp
               /\ The(Last.tf.mask) \notin Targets(Last.tf)) =>
          LET m == sample[The(Last.tf.mask)]
              src == Last.inp[Last.tf.source]
          IN  /\ Shape(m) = Shape(src)
              /\ DOMAIN m.d = Idx(src.nc, src.sh)
              /\ \A ix \in DOMAIN m.d :
                    m.d[ix] = (IF <<ix[2], ix[3], ix[4]>> = Center(src.sh) THEN R(1) ELSE R(0))
    /\ (Called /\ Last.tf.type = "CenterInstance" /\ IsNone(Last.tf.mask)) =>
          LET o == ObjectInstanceCall(ObjectInstance(Last.tf.source, Last.tf.target,
                                                     Last.tf.rebalance),
                                      Last.inp, Last.kwargs)
          IN  sample = o.sample /\ exc = o.exc

C10_Witness ==
    /\ Called
    /\ exc = "none"
    /\ MaskConfigured(Last.tf)
    /\ sample[The(Last.tf.mask)].nc = 2
    /\ Cardinality({ix \in DOMAIN sample[The(Last.tf.mask)].d :
                       sample[The(Last.tf.mask)].d[ix] = R(1)}) = 2

====
